---- MODULE Spec2Model ----
(***************************************************************************)
(* State-machine model of the RunContainer HTTP function                   *)
(* (az-function/src/functions/RunContainer.js).                            *)
(*                                                                         *)
(* One invocation of the handler is a process p.  Every step between two   *)
(* awaits of the handler is one action; the value an await delivers (the   *)
(* provider's answer, or its failure) is an input chosen with \E.          *)
(*                                                                         *)
(* A run of the blob test application (app.js) is a process u of its own,  *)
(* with the storage container as the state it shares with other runs.      *)
(*                                                                         *)
(* JavaScript values:                                                      *)
(*   - an optional value (undefined / null) is <<>> or <<v>>;              *)
(*   - a string is a sequence of text fragments, concatenation is \o.      *)
(***************************************************************************)
EXTENDS Integers, Sequences, FiniteSets, TLC

VARIABLES
  env,            \* process.env restricted to the required keys
  pc,             \* position of each invocation of the handler
  groupName,      \* const groupName of the invocation (optional)
  createOutcome,  \* how createContainer ended (optional)
  requests,       \* remote calls issued by the invocation: <<kind, name>> -> count
  i,              \* loop variable of waitForContainer
  lastGet,        \* what the last containerGroups.get delivered (optional)
  result,         \* const result = await waitForContainer(...) (optional)
  logsOutcome,    \* what containers.listLogs delivered (optional)
  logs,           \* const logs = await fetchLogs(...) (optional)
  err,            \* message of the error thrown in the handler (optional)
  deleteOutcome,  \* how the race in cleanup was settled (optional)
  warnings,       \* kinds of context.warn lines written by the invocation
  response        \* value the handler returned (optional)

\* state of the blob test application (app.js), one run u per process
VARIABLES
  connectionString,  \* CONFIG.CONNECTION_STRING of the run (optional)
  containerExists,   \* the storage container is present at the provider
  upc,               \* position of each run of main
  exists,            \* const exists = await containerClient.exists() (optional)
  blobRequests,      \* remote calls issued by the run: kind -> count
  stored,            \* the provider stored the blob of the run
  blobFailure,       \* message of the error caught in main (optional)
  exitCode           \* code given to process.exit (optional)

handlerVars == <<env, pc, groupName, createOutcome, requests, i, lastGet,
                 result, logsOutcome, logs, err, deleteOutcome, warnings,
                 response>>

blobVars == <<connectionString, containerExists, upc, exists, blobRequests,
              stored, blobFailure, exitCode>>

vars == <<handlerVars, blobVars>>

----------------------------------------------------------------------------
(* Bounds of the model *)

MaxNow == 1            \* Date.now() ranges over 1..MaxNow
MaxExitCode == 1       \* exit codes reported by the provider: 0..MaxExitCode
MaxConcGets == 2       \* status queries of all invocations together in SpecConc

----------------------------------------------------------------------------
(* Program constants *)

MAX_POLLING_ATTEMPTS == 120

required == << "AZURE_SUBSCRIPTION_ID", "RESOURCE_GROUP", "ACI_IDENTITY_ID",
               "CONTAINER_REGISTRY_SERVER", "CONTAINER_IMAGE" >>

TERMINAL_STATES == {"Terminated", "Succeeded", "Failed"}

----------------------------------------------------------------------------
(* Values *)

None == << >>
Some(v) == << v >>
Str(s) == << s >>

Range(s) == { s[k] : k \in DOMAIN s }

RequiredKeys == Range(required)

\* a key of process.env is absent, the empty string, or a non-empty string
EnvValues == { None, Some(""), Some("v") }

\* the 4-character base-36 suffixes Math.random() can give (two of them)
Suffixes == { "a1b2", "c3d4" }

Names == (1..MaxNow) \X Suffixes

Kinds == { "create", "get", "listLogs", "delete" }

NoRequests == [ c \in Kinds \X Names |-> 0 ]

ExitCodes == 0..MaxExitCode

\* currentState of the first container, as far as the handler reads it
CurrentStates ==
  [ state : { None, Some(""), Some("Running"), Some("Terminated"),
              Some("Succeeded"), Some("Failed") },
    exitCode : { None } \cup { Some(c) : c \in ExitCodes } ]

\* what containerGroups.get can deliver: a rejection, or a group whose
\* containers?.[0]?.instanceView?.currentState is absent or present
GetOutcomes ==
  { [ kind |-> "error", message |-> Str("get failed") ] }
  \cup { [ kind |-> "group", currentState |-> None ] }
  \cup { [ kind |-> "group", currentState |-> Some(cs) ] : cs \in CurrentStates }

\* what containers.listLogs can deliver: a rejection, or a body whose content
\* is absent, empty or a text
LogsOutcomes ==
  { [ kind |-> "error", message |-> Str("logs failed") ] }
  \cup { [ kind |-> "body", content |-> c ] :
           c \in { None, Some(<< >>), Some(Str("line 1")) } }

\* how Promise.race([deletePoller, timeout]) can settle
DeleteOutcomesNoTimeout ==
  { [ kind |-> "deleted" ],
    [ kind |-> "error", message |-> Str("delete failed") ] }
DeleteOutcomes ==
  { [ kind |-> "deleted" ],
    [ kind |-> "error", message |-> Str("delete failed") ],
    [ kind |-> "timeout", message |-> Str("Cleanup timeout") ] }

CreateError == Str("create failed")

TimeoutError == Str("Container did not reach terminal state in time")

----------------------------------------------------------------------------
(* Pure functions of the source *)

\* !process.env[key] is false exactly for a non-empty string
Truthy(v) == v # None /\ v[1] # ""

RECURSIVE join(_)
join(keys) ==
  IF keys = << >> THEN << >>
  ELSE IF Len(keys) = 1 THEN << keys[1] >>
  ELSE << keys[1], ", " >> \o join(Tail(keys))

missingLenient(e) == SelectSeq(required, LAMBDA key : e[key] = None)
missing(e) == SelectSeq(required, LAMBDA key : ~Truthy(e[key]))

MissingEnvError(e) == Str("Missing env vars: ") \o join(missing(e))

isTerminalOrRunning(state) == state \in TERMINAL_STATES \cup { "Running" }
isTerminal(state) == state \in TERMINAL_STATES

\* container?.instanceView?.currentState?.state || "Unknown"
observedState(g) ==
  IF g.currentState = None THEN "Unknown"
  ELSE LET s == g.currentState[1].state
       IN IF s = None \/ s[1] = "" THEN "Unknown" ELSE s[1]

\* container?.instanceView?.currentState?.exitCode ?? null
observedExitCodeZero(g) ==
  IF g.currentState = None THEN Some(0)
  ELSE IF g.currentState[1].exitCode = None THEN Some(0)
  ELSE g.currentState[1].exitCode
observedExitCode(g) ==
  IF g.currentState = None THEN None
  ELSE g.currentState[1].exitCode

\* logs?.content || "[NO LOGS]", or the sentinel built in the catch of fetchLogs
fetchLogsValue(o) ==
  IF o.kind = "error" THEN Str("[LOG FETCH FAILED]: ") \o o.message
  ELSE IF o.content = None \/ o.content[1] = << >> THEN Str("[NO LOGS]")
  ELSE o.content[1]

\* the object returned at the end of the try block
completionResponseStatusByState(r, l) ==
  [ status |-> IF r.state = "Succeeded" THEN 200 ELSE 500,
    jsonBody |-> [ success |-> r.exitCode = Some(0), state |-> r.state,
                   exitCode |-> r.exitCode, logs |-> l ] ]
completionResponseByState(r, l) ==
  [ status |-> IF r.state = "Succeeded" THEN 200 ELSE 500,
    jsonBody |-> [ success |-> r.state = "Succeeded", state |-> r.state,
                   exitCode |-> r.exitCode, logs |-> l ] ]
completionResponse(r, l) ==
  [ status |-> IF r.exitCode = Some(0) THEN 200 ELSE 500,
    jsonBody |-> [ success |-> r.exitCode = Some(0), state |-> r.state,
                   exitCode |-> r.exitCode, logs |-> l ] ]

\* the object returned at the end of the catch block
errorResponseWithState(message) ==
  [ status |-> 500,
    jsonBody |-> [ success |-> FALSE, state |-> "Unknown", exitCode |-> None,
                   logs |-> message ] ]
errorResponse(message) ==
  [ status |-> 500, jsonBody |-> [ success |-> FALSE, message |-> message ] ]

----------------------------------------------------------------------------
(* Remote calls *)

Issue(p, kind, name) ==
  requests' = [ requests EXCEPT ![p][<< kind, name >>] = @ + 1 ]

Issued(p, kind) ==
  LET RECURSIVE Sum(_)
      Sum(S) == IF S = {} THEN 0
                ELSE LET n == CHOOSE n \in S : TRUE
                     IN requests[p][<< kind, n >>] + Sum(S \ {n})
  IN Sum(Names)

IssuedAll(p) ==
  Issued(p, "create") + Issued(p, "get") + Issued(p, "listLogs")
    + Issued(p, "delete")

----------------------------------------------------------------------------
(* The handler *)

InitOf(P) ==
  /\ env \in [ RequiredKeys -> EnvValues ]
  /\ pc = [ p \in P |-> "idle" ]
  /\ groupName = [ p \in P |-> None ]
  /\ createOutcome = [ p \in P |-> None ]
  /\ requests = [ p \in P |-> NoRequests ]
  /\ i = [ p \in P |-> 0 ]
  /\ lastGet = [ p \in P |-> None ]
  /\ result = [ p \in P |-> None ]
  /\ logsOutcome = [ p \in P |-> None ]
  /\ logs = [ p \in P |-> None ]
  /\ err = [ p \in P |-> None ]
  /\ deleteOutcome = [ p \in P |-> None ]
  /\ warnings = [ p \in P |-> {} ]
  /\ response = [ p \in P |-> None ]

Procs == DOMAIN pc

\* cleanup up to its await: beginDelete is called for the handler's groupName
cleanupSharedName(p) ==
  \E q \in Procs :
    /\ groupName[q] # None
    /\ \A r \in Procs \ {p} : groupName[r] # None => q # p
    /\ Issue(p, "delete", groupName[q][1])
cleanup(p) ==
  Issue(p, "delete", groupName[p][1])

\* catch (err) of the handler up to the await of cleanup
catchBlockNoCleanup(p, message) ==
  /\ err' = [ err EXCEPT ![p] = Some(message) ]
  /\ UNCHANGED requests
  /\ pc' = [ pc EXCEPT ![p] = "cleanupCatch" ]
catchBlock(p, message) ==
  /\ err' = [ err EXCEPT ![p] = Some(message) ]
  /\ cleanup(p)
  /\ pc' = [ pc EXCEPT ![p] = "cleanupCatch" ]

\* validateEnv throws: the error leaves the handler, which is not yet in its try
InvokeMissingEnv(p) ==
  /\ pc[p] = "idle"
  /\ missing(env) # << >>
  /\ err' = [ err EXCEPT ![p] = Some(MissingEnvError(env)) ]
  /\ pc' = [ pc EXCEPT ![p] = "rejected" ]
  /\ UNCHANGED << env, createOutcome, groupName, requests, i, lastGet, result, logsOutcome,
                  logs, deleteOutcome, warnings, response >>

\* validateEnv passes; the name is generated and beginCreateOrUpdate is called
Invoke(p) ==
  /\ pc[p] = "idle"
  /\ missing(env) = << >>
  /\ \E now \in 1..MaxNow, suffix \in Suffixes :
       /\ groupName' = [ groupName EXCEPT ![p] = Some(<< now, suffix >>) ]
       /\ Issue(p, "create", << now, suffix >>)
  /\ pc' = [ pc EXCEPT ![p] = "creating" ]
  /\ UNCHANGED << env, createOutcome, i, lastGet, result, logsOutcome, logs, err,
                  deleteOutcome, warnings, response >>

\* await beginCreateOrUpdate resolves: pollUntilDone is awaited
CreateAccepted(p) ==
  /\ pc[p] = "creating"
  /\ pc' = [ pc EXCEPT ![p] = "createPolling" ]
  /\ UNCHANGED << env, createOutcome, groupName, requests, i, lastGet, result, logsOutcome,
                  logs, err, deleteOutcome, warnings, response >>

\* pollUntilDone resolves: waitForContainer starts with i = 0 and sleeps
CreateDone(p) ==
  /\ pc[p] = "createPolling"
  /\ createOutcome' = [ createOutcome EXCEPT ![p] = Some([ kind |-> "created" ]) ]
  /\ i' = [ i EXCEPT ![p] = 0 ]
  /\ pc' = [ pc EXCEPT ![p] = "sleeping" ]
  /\ UNCHANGED << env, groupName, requests, lastGet, result, logsOutcome,
                  logs, err, deleteOutcome, warnings, response >>

\* beginCreateOrUpdate or pollUntilDone rejects: createContainer logs the
\* error and rethrows it into the catch of the handler
CreateFailsSwallowed(p) ==
  /\ pc[p] \in { "creating", "createPolling" }
  /\ createOutcome' = [ createOutcome EXCEPT ![p] =
                          Some([ kind |-> "error", message |-> CreateError ]) ]
  /\ i' = [ i EXCEPT ![p] = 0 ]
  /\ pc' = [ pc EXCEPT ![p] = "sleeping" ]
  /\ UNCHANGED << env, groupName, requests, lastGet, result, logsOutcome,
                  logs, err, deleteOutcome, warnings, response >>
CreateFails(p) ==
  /\ pc[p] \in { "creating", "createPolling" }
  /\ createOutcome' = [ createOutcome EXCEPT ![p] =
                          Some([ kind |-> "error", message |-> CreateError ]) ]
  /\ catchBlock(p, CreateError)
  /\ UNCHANGED << env, groupName, i, lastGet, result, logsOutcome, logs,
                  deleteOutcome, warnings, response >>

\* the sleep of the loop body ends: containerGroups.get is called
Poll(p) ==
  /\ pc[p] = "sleeping"
  /\ Issue(p, "get", groupName[p][1])
  /\ pc' = [ pc EXCEPT ![p] = "getting" ]
  /\ UNCHANGED << env, createOutcome, groupName, i, lastGet, result, logsOutcome, logs, err,
                  deleteOutcome, warnings, response >>

\* the end of one pass of the loop body without a return: i++ and the loop
\* test; when the budget is spent waitForContainer throws
loopNextReturnsUnknown(p) ==
  /\ i' = [ i EXCEPT ![p] = @ + 1 ]
  /\ IF i[p] + 1 < MAX_POLLING_ATTEMPTS
     THEN /\ pc' = [ pc EXCEPT ![p] = "sleeping" ]
          /\ UNCHANGED << requests, err, result >>
     ELSE /\ result' = [ result EXCEPT ![p] =
                           Some([ state |-> "Unknown", exitCode |-> None ]) ]
          /\ Issue(p, "listLogs", groupName[p][1])
          /\ pc' = [ pc EXCEPT ![p] = "fetchingLogs" ]
          /\ UNCHANGED err
loopNextOneMore(p) ==
  /\ i' = [ i EXCEPT ![p] = @ + 1 ]
  /\ IF i[p] + 1 <= MAX_POLLING_ATTEMPTS
     THEN /\ pc' = [ pc EXCEPT ![p] = "sleeping" ]
          /\ UNCHANGED << requests, err, result >>
     ELSE /\ catchBlock(p, TimeoutError)
          /\ UNCHANGED result
loopNext(p) ==
  /\ i' = [ i EXCEPT ![p] = @ + 1 ]
  /\ IF i[p] + 1 < MAX_POLLING_ATTEMPTS
     THEN /\ pc' = [ pc EXCEPT ![p] = "sleeping" ]
          /\ UNCHANGED << requests, err, result >>
     ELSE /\ catchBlock(p, TimeoutError)
          /\ UNCHANGED result

\* containerGroups.get resolves with a terminal state: waitForContainer
\* returns { state, exitCode } and fetchLogs calls listLogs
GetTerminalCleansFirst(p) ==
  /\ pc[p] = "getting"
  /\ \E o \in GetOutcomes :
       /\ o.kind = "group"
       /\ isTerminal(observedState(o))
       /\ lastGet' = [ lastGet EXCEPT ![p] = Some(o) ]
       /\ result' = [ result EXCEPT ![p] =
                        Some([ state |-> observedState(o),
                               exitCode |-> observedExitCode(o) ]) ]
  /\ requests' = [ requests EXCEPT
                     ![p][<< "delete", groupName[p][1] >>] = @ + 1,
                     ![p][<< "listLogs", groupName[p][1] >>] = @ + 1 ]
  /\ pc' = [ pc EXCEPT ![p] = "fetchingLogs" ]
  /\ UNCHANGED << env, createOutcome, groupName, i, logsOutcome, logs, err, deleteOutcome,
                  warnings, response >>
GetTerminal(p) ==
  /\ pc[p] = "getting"
  /\ \E o \in GetOutcomes :
       /\ o.kind = "group"
       /\ isTerminal(observedState(o))
       /\ lastGet' = [ lastGet EXCEPT ![p] = Some(o) ]
       /\ result' = [ result EXCEPT ![p] =
                        Some([ state |-> observedState(o),
                               exitCode |-> observedExitCode(o) ]) ]
  /\ Issue(p, "listLogs", groupName[p][1])
  /\ pc' = [ pc EXCEPT ![p] = "fetchingLogs" ]
  /\ UNCHANGED << env, createOutcome, groupName, i, logsOutcome, logs, err, deleteOutcome,
                  warnings, response >>

\* containerGroups.get resolves with a state that is not terminal
GetNonTerminal(p) ==
  /\ pc[p] = "getting"
  /\ \E o \in GetOutcomes :
       /\ o.kind = "group"
       /\ ~isTerminal(observedState(o))
       /\ lastGet' = [ lastGet EXCEPT ![p] = Some(o) ]
  /\ loopNext(p)
  /\ UNCHANGED << env, createOutcome, groupName, logsOutcome, logs, deleteOutcome, warnings,
                  response >>

\* containerGroups.get rejects: the catch in the loop body warns
GetFailsRethrows(p) ==
  /\ pc[p] = "getting"
  /\ \E o \in GetOutcomes :
       /\ o.kind = "error"
       /\ lastGet' = [ lastGet EXCEPT ![p] = Some(o) ]
       /\ catchBlock(p, o.message)
  /\ UNCHANGED << env, createOutcome, groupName, i, result, logsOutcome, logs, deleteOutcome,
                  warnings, response >>
GetFails(p) ==
  /\ pc[p] = "getting"
  /\ \E o \in GetOutcomes :
       /\ o.kind = "error"
       /\ lastGet' = [ lastGet EXCEPT ![p] = Some(o) ]
  /\ warnings' = [ warnings EXCEPT ![p] = @ \cup { "state" } ]
  /\ loopNext(p)
  /\ UNCHANGED << env, createOutcome, groupName, logsOutcome, logs, deleteOutcome, response >>

\* containers.listLogs settles: fetchLogs returns a text in either case, the
\* handler prints it and calls cleanup
LogsReturnRethrows(p) ==
  /\ pc[p] = "fetchingLogs"
  /\ \E o \in LogsOutcomes :
       /\ logsOutcome' = [ logsOutcome EXCEPT ![p] = Some(o) ]
       /\ warnings' = [ warnings EXCEPT ![p] =
                          IF o.kind = "error" THEN @ \cup { "logs" } ELSE @ ]
       /\ IF o.kind = "error"
          THEN /\ catchBlock(p, o.message)
               /\ UNCHANGED logs
          ELSE /\ logs' = [ logs EXCEPT ![p] = Some(fetchLogsValue(o)) ]
               /\ cleanup(p)
               /\ pc' = [ pc EXCEPT ![p] = "cleanupTry" ]
               /\ UNCHANGED err
  /\ UNCHANGED << env, createOutcome, groupName, i, lastGet, result, deleteOutcome, response >>
LogsReturn(p) ==
  /\ pc[p] = "fetchingLogs"
  /\ \E o \in LogsOutcomes :
       /\ logsOutcome' = [ logsOutcome EXCEPT ![p] = Some(o) ]
       /\ logs' = [ logs EXCEPT ![p] = Some(fetchLogsValue(o)) ]
       /\ warnings' = [ warnings EXCEPT ![p] =
                          IF o.kind = "error" THEN @ \cup { "logs" } ELSE @ ]
  /\ cleanup(p)
  /\ pc' = [ pc EXCEPT ![p] = "cleanupTry" ]
  /\ UNCHANGED << env, createOutcome, groupName, i, lastGet, result, err, deleteOutcome,
                  response >>

\* the race in cleanup settles: a rejection is caught and only warned about
cleanupSettles(p, o) ==
  /\ deleteOutcome' = [ deleteOutcome EXCEPT ![p] = Some(o) ]
  /\ warnings' = [ warnings EXCEPT ![p] =
                     IF o.kind = "deleted" THEN @ ELSE @ \cup { "cleanup" } ]

\* cleanup called from the try block returns: the completion is returned
CleanupDoneRethrows(p) ==
  /\ pc[p] = "cleanupTry"
  /\ \E o \in DeleteOutcomes :
       /\ cleanupSettles(p, o)
       /\ IF o.kind = "deleted"
          THEN /\ response' = [ response EXCEPT ![p] =
                       Some(completionResponse(result[p][1], logs[p][1])) ]
               /\ pc' = [ pc EXCEPT ![p] = "done" ]
               /\ UNCHANGED << requests, err >>
          ELSE /\ catchBlock(p, o.message)
               /\ UNCHANGED response
  /\ UNCHANGED << env, createOutcome, groupName, i, lastGet, result, logsOutcome, logs >>
CleanupDone(p) ==
  /\ pc[p] = "cleanupTry"
  /\ \E o \in DeleteOutcomes : cleanupSettles(p, o)
  /\ response' = [ response EXCEPT ![p] =
                     Some(completionResponse(result[p][1], logs[p][1])) ]
  /\ pc' = [ pc EXCEPT ![p] = "done" ]
  /\ UNCHANGED << env, createOutcome, groupName, requests, i, lastGet, result, logsOutcome,
                  logs, err >>

\* cleanup called from the catch block returns: the error body is returned
CleanupAfterError(p) ==
  /\ pc[p] = "cleanupCatch"
  /\ \E o \in DeleteOutcomes : cleanupSettles(p, o)
  /\ response' = [ response EXCEPT ![p] = Some(errorResponse(err[p][1])) ]
  /\ pc' = [ pc EXCEPT ![p] = "done" ]
  /\ UNCHANGED << env, createOutcome, groupName, requests, i, lastGet, result, logsOutcome,
                  logs, err >>

----------------------------------------------------------------------------
(* The blob test application: main of app.js *)

BlobKinds == { "exists", "create", "upload" }

NoCredentialError == Str("AZURE_STORAGE_CONNECTION_STRING is not set")

ContainerAlreadyExists == Str("ContainerAlreadyExists")

InitBlobOf(R) ==
  /\ connectionString \in [ R -> EnvValues ]
  /\ containerExists \in BOOLEAN
  /\ upc = [ u \in R |-> "start" ]
  /\ exists = [ u \in R |-> None ]
  /\ blobRequests = [ u \in R |-> [ k \in BlobKinds |-> 0 ] ]
  /\ stored = [ u \in R |-> FALSE ]
  /\ blobFailure = [ u \in R |-> None ]
  /\ exitCode = [ u \in R |-> None ]

Runs == DOMAIN upc

IssueBlob(u, kind) ==
  blobRequests' = [ blobRequests EXCEPT ![u][kind] = @ + 1 ]

\* catch (err) of main: the error is printed and the process exits with 1
mainCatch(u, message) ==
  /\ blobFailure' = [ blobFailure EXCEPT ![u] = Some(message) ]
  /\ exitCode' = [ exitCode EXCEPT ![u] = Some(1) ]
  /\ upc' = [ upc EXCEPT ![u] = "exited" ]

\* generateFileName, generateFileContent and uploadFile up to its await
uploadFile(u) ==
  /\ IssueBlob(u, "upload")
  /\ upc' = [ upc EXCEPT ![u] = "uploading" ]

\* createBlobServiceClient throws: no connection string
StartNoCredential(u) ==
  /\ upc[u] = "start"
  /\ ~Truthy(connectionString[u])
  /\ mainCatch(u, NoCredentialError)
  /\ UNCHANGED << connectionString, containerExists, exists, blobRequests,
                  stored >>
  /\ UNCHANGED handlerVars

\* the client is built and ensureContainerExists calls containerClient.exists
Start(u) ==
  /\ upc[u] = "start"
  /\ Truthy(connectionString[u])
  /\ IssueBlob(u, "exists")
  /\ upc' = [ upc EXCEPT ![u] = "checking" ]
  /\ UNCHANGED << connectionString, containerExists, exists, stored,
                  blobFailure, exitCode >>
  /\ UNCHANGED handlerVars

\* containerClient.exists rejects
ExistsFails(u) ==
  /\ upc[u] = "checking"
  /\ mainCatch(u, Str("exists failed"))
  /\ UNCHANGED << connectionString, containerExists, exists, blobRequests,
                  stored >>
  /\ UNCHANGED handlerVars

\* containerClient.exists resolves with the state of the container: create
\* is called when it is absent, otherwise the upload starts
ExistsReturnsAlwaysCreates(u) ==
  /\ upc[u] = "checking"
  /\ exists' = [ exists EXCEPT ![u] = Some(containerExists) ]
  /\ IssueBlob(u, "create")
  /\ upc' = [ upc EXCEPT ![u] = "creatingContainer" ]
  /\ UNCHANGED << connectionString, containerExists, stored, blobFailure,
                  exitCode >>
  /\ UNCHANGED handlerVars
ExistsReturns(u) ==
  /\ upc[u] = "checking"
  /\ exists' = [ exists EXCEPT ![u] = Some(containerExists) ]
  /\ IF ~containerExists
     THEN /\ IssueBlob(u, "create")
          /\ upc' = [ upc EXCEPT ![u] = "creatingContainer" ]
     ELSE uploadFile(u)
  /\ UNCHANGED << connectionString, containerExists, stored, blobFailure,
                  exitCode >>
  /\ UNCHANGED handlerVars

\* containerClient.create resolves: the container is now present and the
\* upload starts
ContainerCreated(u) ==
  /\ upc[u] = "creatingContainer"
  /\ ~containerExists
  /\ containerExists' = TRUE
  /\ uploadFile(u)
  /\ UNCHANGED << connectionString, exists, stored, blobFailure, exitCode >>
  /\ UNCHANGED handlerVars

\* containerClient.create rejects: the provider refuses to create a container
\* that is present, or fails for a reason of its own
ContainerCreateFails(u) ==
  /\ upc[u] = "creatingContainer"
  /\ \E message \in { Str("create failed") }
                      \cup (IF containerExists THEN { ContainerAlreadyExists }
                            ELSE {}) :
       mainCatch(u, message)
  /\ UNCHANGED << connectionString, containerExists, exists, blobRequests,
                  stored >>
  /\ UNCHANGED handlerVars

\* uploadData resolves: TEST SUCCESS, process.exit(0)
UploadDone(u) ==
  /\ upc[u] = "uploading"
  /\ stored' = [ stored EXCEPT ![u] = TRUE ]
  /\ exitCode' = [ exitCode EXCEPT ![u] = Some(0) ]
  /\ upc' = [ upc EXCEPT ![u] = "exited" ]
  /\ UNCHANGED << connectionString, containerExists, exists, blobRequests,
                  blobFailure >>
  /\ UNCHANGED handlerVars

\* uploadData rejects
UploadFails(u) ==
  /\ upc[u] = "uploading"
  /\ mainCatch(u, Str("upload failed"))
  /\ UNCHANGED << connectionString, containerExists, exists, blobRequests,
                  stored >>
  /\ UNCHANGED handlerVars

----------------------------------------------------------------------------
(* Specifications *)

\* one invocation of the handler
Init == InitOf({1}) /\ InitBlobOf({}) /\ containerExists = FALSE

Next ==
  \/ (\E p \in Procs : InvokeMissingEnv(p)) /\ UNCHANGED blobVars
  \/ (\E p \in Procs : Invoke(p)) /\ UNCHANGED blobVars
  \/ (\E p \in Procs : CreateAccepted(p)) /\ UNCHANGED blobVars
  \/ (\E p \in Procs : CreateDone(p)) /\ UNCHANGED blobVars
  \/ (\E p \in Procs : CreateFails(p)) /\ UNCHANGED blobVars
  \/ (\E p \in Procs : Poll(p)) /\ UNCHANGED blobVars
  \/ (\E p \in Procs : GetTerminal(p)) /\ UNCHANGED blobVars
  \/ (\E p \in Procs : GetNonTerminal(p)) /\ UNCHANGED blobVars
  \/ (\E p \in Procs : GetFails(p)) /\ UNCHANGED blobVars
  \/ (\E p \in Procs : LogsReturn(p)) /\ UNCHANGED blobVars
  \/ (\E p \in Procs : CleanupDone(p)) /\ UNCHANGED blobVars
  \/ (\E p \in Procs : CleanupAfterError(p)) /\ UNCHANGED blobVars

Spec == Init /\ [][Next]_vars

\* one invocation whose awaited calls settle and whose timers fire: the
\* create, status and log calls return or fail, the sleep of the loop ends
\* and the timer of cleanup fires; the delete request itself may never settle
CreateSettles(p) ==
  (CreateAccepted(p) \/ CreateDone(p) \/ CreateFails(p)) /\ UNCHANGED blobVars

SleepEnds(p) ==
  Poll(p) /\ UNCHANGED blobVars

GetSettles(p) ==
  (GetTerminal(p) \/ GetNonTerminal(p) \/ GetFails(p)) /\ UNCHANGED blobVars

LogsSettle(p) ==
  LogsReturn(p) /\ UNCHANGED blobVars

CleanupTimerFires(p) ==
  /\ CleanupDone(p) \/ CleanupAfterError(p)
  /\ deleteOutcome'[p][1].kind = "timeout"
  /\ UNCHANGED blobVars

Fairness ==
  \A p \in {1} :
    /\ WF_vars(CreateSettles(p))
    /\ WF_vars(SleepEnds(p))
    /\ WF_vars(GetSettles(p))
    /\ WF_vars(LogsSettle(p))
    /\ WF_vars(CleanupTimerFires(p))

SpecFair == Init /\ [][Next]_vars /\ Fairness

\* two concurrent invocations of the handler in one function host that start
\* within the same millisecond; the interleavings are explored up to
\* MaxConcGets status queries of the two invocations together
TotalGets ==
  LET RECURSIVE Sum(_)
      Sum(S) == IF S = {} THEN 0
                ELSE LET p == CHOOSE p \in S : TRUE
                     IN Issued(p, "get") + Sum(S \ {p})
  IN Sum(Procs)

ConcInvoke(p) ==
  /\ Invoke(p)
  /\ groupName'[p][1][1] = 1

ConcPoll(p) ==
  /\ TotalGets < MaxConcGets
  /\ Poll(p)

InitConc == InitOf({1, 2}) /\ InitBlobOf({}) /\ containerExists = FALSE

NextConc ==
  \/ (\E p \in Procs : InvokeMissingEnv(p)) /\ UNCHANGED blobVars
  \/ (\E p \in Procs : ConcInvoke(p)) /\ UNCHANGED blobVars
  \/ (\E p \in Procs : CreateAccepted(p)) /\ UNCHANGED blobVars
  \/ (\E p \in Procs : CreateDone(p)) /\ UNCHANGED blobVars
  \/ (\E p \in Procs : CreateFails(p)) /\ UNCHANGED blobVars
  \/ (\E p \in Procs : ConcPoll(p)) /\ UNCHANGED blobVars
  \/ (\E p \in Procs : GetTerminal(p)) /\ UNCHANGED blobVars
  \/ (\E p \in Procs : GetNonTerminal(p)) /\ UNCHANGED blobVars
  \/ (\E p \in Procs : GetFails(p)) /\ UNCHANGED blobVars
  \/ (\E p \in Procs : LogsReturn(p)) /\ UNCHANGED blobVars
  \/ (\E p \in Procs : CleanupDone(p)) /\ UNCHANGED blobVars
  \/ (\E p \in Procs : CleanupAfterError(p)) /\ UNCHANGED blobVars

SpecConc == InitConc /\ [][NextConc]_vars

\* two runs of the blob test application against one storage container
InitBlob ==
  /\ InitOf({})
  /\ env = [ k \in RequiredKeys |-> None ]
  /\ InitBlobOf({1, 2})

NextBlob ==
  \/ \E u \in Runs : StartNoCredential(u)
  \/ \E u \in Runs : Start(u)
  \/ \E u \in Runs : ExistsFails(u)
  \/ \E u \in Runs : ExistsReturns(u)
  \/ \E u \in Runs : ContainerCreated(u)
  \/ \E u \in Runs : ContainerCreateFails(u)
  \/ \E u \in Runs : UploadDone(u)
  \/ \E u \in Runs : UploadFails(u)

SpecBlob == InitBlob /\ [][NextBlob]_vars

----------------------------------------------------------------------------
TypeOK ==
  /\ env \in [ RequiredKeys -> EnvValues ]
  /\ \A p \in Procs :
       /\ pc[p] \in { "idle", "rejected", "creating", "createPolling",
                      "sleeping", "getting", "fetchingLogs", "cleanupTry",
                      "cleanupCatch", "done" }
       /\ i[p] \in 0..MAX_POLLING_ATTEMPTS

----------------------------------------------------------------------------
(* What the provider delivered to an invocation, read from the answers      *)
(* themselves and not from the handler's variables                          *)

Returned(p) == pc[p] = "done"

Body(p) == response[p][1].jsonBody

Status(p) == response[p][1].status

Has(p, field) == field \in DOMAIN Body(p)

\* the last status query delivered a group in a terminal state
TerminalSeen(p) ==
  /\ lastGet[p] # None
  /\ lastGet[p][1].kind = "group"
  /\ lastGet[p][1].currentState # None
  /\ lastGet[p][1].currentState[1].state # None
  /\ lastGet[p][1].currentState[1].state[1]
       \in { "Terminated", "Succeeded", "Failed" }

SeenState(p) == lastGet[p][1].currentState[1].state[1]

SeenExitCode(p) == lastGet[p][1].currentState[1].exitCode

\* every query of the budget was answered and none delivered a terminal state
TimedOut(p) ==
  /\ Issued(p, "get") = MAX_POLLING_ATTEMPTS
  /\ pc[p] # "getting"
  /\ ~TerminalSeen(p)

Deletes(p) ==
  IF groupName[p] = None THEN 0
  ELSE requests[p][<< "delete", groupName[p][1] >>]

----------------------------------------------------------------------------
(* C1: an invocation that issued a create request for a job name has       *)
(* issued exactly one delete request, for that same name, when it returns  *)
(* its response; at no time has it issued two, or one for another name.    *)
C1_ExactlyOneDelete ==
  \A p \in Procs :
    /\ \A n \in Names :
         requests[p][<< "delete", n >>]
           <= (IF groupName[p] = Some(n) THEN 1 ELSE 0)
    /\ (Returned(p) /\ Issued(p, "create") > 0) =>
         /\ requests[p][<< "create", groupName[p][1] >>] = 1
         /\ requests[p][<< "delete", groupName[p][1] >>] = 1

C1_Witness ==
  \E p \in Procs :
    /\ Returned(p)
    /\ TerminalSeen(p)
    /\ SeenExitCode(p) = Some(1)
    /\ deleteOutcome[p][1].kind = "error"
    /\ Deletes(p) = 1

(* C2: every invocation ends by returning a response with a status and a   *)
(* JSON body; with a required configuration value missing the response is *)
(* 500 with the body {success: false, message}.                            *)
C2_AlwaysJsonResponse ==
  \A p \in Procs :
    /\ pc[p] # "rejected"
    /\ (pc[p] # "idle" /\ \E k \in RequiredKeys : env[k] \in { None, Some("") }) =>
         /\ response[p] # None
         /\ Status(p) = 500
         /\ DOMAIN Body(p) = { "success", "message" }
         /\ Body(p).success = FALSE

(* C3: when a required key is absent or empty, a started invocation has    *)
(* failed in validation and has issued no remote call of any kind.         *)
C3_NoRemoteCallOnMissingEnv ==
  \A p \in Procs :
    (pc[p] # "idle" /\ \E k \in RequiredKeys : env[k] \in { None, Some("") }) =>
      /\ pc[p] = "rejected"
      /\ err[p] # None
      /\ \A c \in Kinds \X Names : requests[p][c] = 0

C3_Witness ==
  \E p \in Procs :
    /\ pc[p] = "rejected"
    /\ \E k \in RequiredKeys :
         /\ env[k] = Some("")
         /\ \A j \in RequiredKeys \ {k} : env[j] = Some("v")
    /\ IssuedAll(p) = 0

(* C4: the response is success = true with status 200 exactly when a       *)
(* terminal state was observed and the exit code reported with it is 0; a  *)
(* terminal observation with another or no exit code gives success = false *)
(* with status 500, and the body still has state, exitCode and logs.       *)
C4_SuccessIffTerminalZero ==
  \A p \in Procs :
    Returned(p) =>
      /\ Body(p).success = (TerminalSeen(p) /\ SeenExitCode(p) = Some(0))
      /\ (Status(p) = 200) = (TerminalSeen(p) /\ SeenExitCode(p) = Some(0))
      /\ (TerminalSeen(p) /\ SeenExitCode(p) # Some(0)) =>
           /\ Status(p) = 500
           /\ Has(p, "state") /\ Has(p, "exitCode") /\ Has(p, "logs")
           /\ Body(p).state = SeenState(p)
           /\ Body(p).exitCode = SeenExitCode(p)
           /\ Body(p).logs = logs[p][1]

C4_Witness ==
  \E p \in Procs :
    /\ Returned(p)
    /\ TerminalSeen(p)
    /\ SeenState(p) = "Succeeded"
    /\ SeenExitCode(p) = None
    /\ Status(p) = 500

(* C5: when the 120 status queries are spent without a terminal state, the *)
(* run is a timeout failure: the delete request is issued before the       *)
(* response, and the response is 500, success = false, with the timeout    *)
(* message.                                                                *)
C5_TimeoutFailure ==
  \A p \in Procs :
    TimedOut(p) =>
      /\ pc[p] \in { "cleanupCatch", "done" }
      /\ err[p] = Some(TimeoutError)
      /\ Deletes(p) = 1
      /\ Returned(p) =>
           /\ Status(p) = 500
           /\ Body(p).success = FALSE
           /\ Has(p, "message")
           /\ Body(p).message = TimeoutError

C5_Witness ==
  \E p \in Procs :
    /\ Returned(p)
    /\ TimedOut(p)
    /\ deleteOutcome[p][1].kind = "timeout"
    /\ Status(p) = 500

(* C6, as stated: on a polling timeout the response is 500 and its body    *)
(* carries state, exitCode and logs.                                       *)
C6_TimeoutCarriesState ==
  \A p \in Procs :
    (Returned(p) /\ TimedOut(p)) =>
      /\ Status(p) = 500
      /\ Has(p, "state") /\ Has(p, "exitCode") /\ Has(p, "logs")

(* C6, amended: on a polling timeout the response is 500 and its body has  *)
(* exactly the fields success and message; no log fetch was issued and no  *)
(* state, exitCode or logs is reported.                                    *)
C6_TimeoutCarriesOnlyMessage ==
  \A p \in Procs :
    (Returned(p) /\ TimedOut(p)) =>
      /\ Status(p) = 500
      /\ DOMAIN Body(p) = { "success", "message" }
      /\ Issued(p, "listLogs") = 0
      /\ result[p] = None /\ logs[p] = None

C6_Witness ==
  \E p \in Procs :
    /\ Returned(p)
    /\ TimedOut(p)
    /\ lastGet[p][1].kind = "group"
    /\ DOMAIN Body(p) = { "success", "message" }

\* the response a terminal observation and the captured logs determine
ExpectedCompletion(p) ==
  [ status |-> IF SeenExitCode(p) = Some(0) THEN 200 ELSE 500,
    jsonBody |-> [ success |-> SeenExitCode(p) = Some(0),
                   state |-> SeenState(p),
                   exitCode |-> SeenExitCode(p),
                   logs |-> logs[p][1] ] ]

(* C7: the step in which the delete request settles (done, failed or timed *)
(* out) returns the response fixed by the state before it: after a         *)
(* terminal observation the completion for that state, exit code and logs, *)
(* and it issues no further request; a failed delete leaves a warning.     *)
C7_CleanupNeverChangesResult ==
  [][ \A p \in Procs :
        (pc[p] = "cleanupTry" /\ pc'[p] # "cleanupTry") =>
          /\ pc'[p] = "done"
          /\ response'[p] = Some(ExpectedCompletion(p))
          /\ requests'[p] = requests[p]
          /\ err'[p] = None
          /\ deleteOutcome'[p][1].kind # "deleted" => "cleanup" \in warnings'[p]
    ]_vars

C7_Witness ==
  \E p \in Procs :
    /\ Returned(p)
    /\ TerminalSeen(p)
    /\ deleteOutcome[p][1].kind = "timeout"
    /\ "cleanup" \in warnings[p]
    /\ Body(p).success = TRUE

LogFetchFailed(p) ==
  logsOutcome[p] # None /\ logsOutcome[p][1].kind = "error"

(* C8: after a failed log fetch the run goes on: logs is the sentinel text *)
(* with the fetch error, the delete request is issued, and the response    *)
(* has status and success from the exit code alone.                        *)
C8_LogFetchFailureDegrades ==
  \A p \in Procs :
    LogFetchFailed(p) =>
      /\ pc[p] \in { "cleanupTry", "done" }
      /\ Deletes(p) = 1
      /\ logs[p] = Some(<< "[LOG FETCH FAILED]: " >> \o logsOutcome[p][1].message)
      /\ Returned(p) =>
           /\ Has(p, "logs")
           /\ Body(p).logs = << "[LOG FETCH FAILED]: " >> \o logsOutcome[p][1].message
           /\ Body(p).success = (SeenExitCode(p) = Some(0))
           /\ Status(p) = (IF SeenExitCode(p) = Some(0) THEN 200 ELSE 500)

C8_Witness ==
  \E p \in Procs :
    /\ Returned(p)
    /\ LogFetchFailed(p)
    /\ Status(p) = 200

\* this step delivers the rejection of a status query to invocation p
QueryFailsNow(p) ==
  /\ pc[p] = "getting"
  /\ pc'[p] # "getting"
  /\ lastGet'[p][1].kind = "error"

(* C9: a failed status query ends one pass of the loop and nothing else:   *)
(* the loop goes to its next attempt while the budget lasts, and a run     *)
(* that later observes a terminal state returns that state and exit code;  *)
(* the query error is never the message of the response.                   *)
C9_QueryFailureDoesNotAbort ==
  /\ [][ \A p \in Procs :
           QueryFailsNow(p) =>
             /\ i'[p] = i[p] + 1
             /\ requests'[p][<< "delete", groupName[p][1] >>]
                  = (IF i'[p] < MAX_POLLING_ATTEMPTS THEN 0 ELSE 1)
             /\ pc'[p] = (IF i'[p] < MAX_POLLING_ATTEMPTS
                          THEN "sleeping" ELSE "cleanupCatch")
       ]_vars
  /\ [] (\A p \in Procs :
           Returned(p) =>
             /\ TerminalSeen(p) => response[p] = Some(ExpectedCompletion(p))
             /\ Has(p, "message") =>
                  Body(p).message \notin
                    { o.message : o \in { g \in GetOutcomes : g.kind = "error" } })

C9_Witness ==
  \E p \in Procs :
    /\ Returned(p)
    /\ "state" \in warnings[p]
    /\ TerminalSeen(p)
    /\ Body(p).state = "Failed"
    /\ Body(p).exitCode = Some(1)

CreateFailed(p) ==
  createOutcome[p] # None /\ createOutcome[p][1].kind = "error"

(* C10: when the create request fails no status query and no log fetch is  *)
(* issued, one delete request is issued, and the response is 500 with the  *)
(* body {success: false, message}.                                         *)
C10_CreateFailureIsFatal ==
  \A p \in Procs :
    CreateFailed(p) =>
      /\ Issued(p, "get") = 0
      /\ Issued(p, "listLogs") = 0
      /\ Deletes(p) = 1
      /\ pc[p] \in { "cleanupCatch", "done" }
      /\ Returned(p) =>
           response[p] = Some([ status |-> 500,
                                jsonBody |-> [ success |-> FALSE,
                                               message |-> createOutcome[p][1].message ] ])

C10_Witness ==
  \E p \in Procs :
    /\ Returned(p)
    /\ CreateFailed(p)
    /\ Issued(p, "create") = 1
    /\ Status(p) = 500

----------------------------------------------------------------------------
(* C11: two invocations of the handler never have the same generated job   *)
(* name, also when they start within the same millisecond.                 *)
C11_NamesNeverCollide ==
  \A p, q \in Procs :
    (p # q /\ groupName[p] # None /\ groupName[q] # None) =>
      groupName[p] # groupName[q]

Exited(u) == upc[u] = "exited"

BlobIssuedAll(u) ==
  blobRequests[u]["exists"] + blobRequests[u]["create"]
    + blobRequests[u]["upload"]

(* C12: in a run of the blob application a create request is issued        *)
(* exactly when the existence check reported the container absent; the     *)
(* upload is issued only once the container is ensured; the run exits with *)
(* 0 only after the upload completed and with 1 when the connection string *)
(* is absent (no remote call made) or a step failed; no step is retried.   *)
C12_BlobUploaderRun ==
  \A u \in Runs :
    /\ \A k \in BlobKinds : blobRequests[u][k] <= 1
    /\ (blobRequests[u]["create"] = 1) = (exists[u] = Some(FALSE))
    /\ blobRequests[u]["upload"] = 1 =>
         /\ containerExists
         /\ exists[u] # None
         /\ blobRequests[u]["exists"] = 1
    /\ exitCode[u] = Some(0) => (stored[u] /\ blobRequests[u]["upload"] = 1)
    /\ (upc[u] # "start" /\ ~Truthy(connectionString[u])) =>
         (exitCode[u] = Some(1) /\ BlobIssuedAll(u) = 0)
    /\ blobFailure[u] # None => (Exited(u) /\ exitCode[u] = Some(1))
    /\ Exited(u) =>
         /\ exitCode[u] \in { Some(0), Some(1) }
         /\ (exitCode[u] = Some(1)) = (blobFailure[u] # None)
         /\ (exitCode[u] = Some(1)) = ~stored[u]

C12_Witness ==
  \E u \in Runs :
    /\ Exited(u)
    /\ exitCode[u] = Some(0)
    /\ exists[u] = Some(FALSE)
    /\ blobRequests[u]["create"] = 1
    /\ stored[u]

\* this step delivers an answer without a terminal state to invocation p
NonTerminalNow(p) ==
  /\ pc[p] = "getting"
  /\ pc'[p] # "getting"
  /\ lastGet'[p] # None
  /\ \/ lastGet'[p][1].kind = "error"
     \/ lastGet'[p][1].currentState = None
     \/ lastGet'[p][1].currentState[1].state
          \notin { Some("Terminated"), Some("Succeeded"), Some("Failed") }

Gets(p) ==
  IF groupName[p] = None THEN 0
  ELSE requests[p][<< "get", groupName[p][1] >>]

(* C13: an invocation issues at most 120 status queries, failed ones       *)
(* included; each query follows one sleep of its own; no query is issued   *)
(* once a terminal state was observed; an answer without a terminal state  *)
(* leads to the next sleep as long as fewer than 120 queries were made.    *)
C13_PollingBudget ==
  /\ [] (\A p \in Procs :
           /\ Issued(p, "get") <= MAX_POLLING_ATTEMPTS
           /\ TerminalSeen(p) => pc[p] \notin { "sleeping", "getting" })
  /\ [][ \A p \in Procs :
           /\ requests'[p] # requests[p] /\ pc'[p] = "getting" =>
                /\ pc[p] = "sleeping"
                /\ requests'[p] = [ requests[p] EXCEPT
                                      ![<< "get", groupName[p][1] >>] = @ + 1 ]
           /\ (pc'[p] = "sleeping" /\ pc[p] # "sleeping") =>
                pc[p] \in { "createPolling", "getting" }
           /\ pc[p] = "sleeping" => pc'[p] \in { "sleeping", "getting" }
           /\ NonTerminalNow(p) =>
                pc'[p] = (IF Gets(p) < MAX_POLLING_ATTEMPTS
                          THEN "sleeping" ELSE "cleanupCatch")
       ]_vars

C13_Witness ==
  \E p \in Procs :
    /\ Issued(p, "get") = MAX_POLLING_ATTEMPTS
    /\ TerminalSeen(p)
    /\ pc[p] = "done"

(* C14: the remote calls of an invocation are ordered: no status query     *)
(* before create completed, the log fetch only after a terminal state was  *)
(* observed, the delete request not before the log fetch has finished and  *)
(* no call of any kind after it, and the response only after the cleanup   *)
(* attempt has settled.                                                    *)
C14_CallOrder ==
  /\ [] (\A p \in Procs :
           /\ Issued(p, "get") > 0 =>
                createOutcome[p] = Some([ kind |-> "created" ])
           /\ pc[p] \in { "creating", "createPolling" } =>
                IssuedAll(p) = Issued(p, "create")
           /\ Issued(p, "listLogs") > 0 => TerminalSeen(p)
           /\ pc[p] = "fetchingLogs" => Issued(p, "delete") = 0
           /\ (Issued(p, "delete") > 0 /\ Issued(p, "listLogs") > 0) =>
                logsOutcome[p] # None
           /\ response[p] # None =>
                (deleteOutcome[p] # None /\ Issued(p, "delete") = 1))
  /\ [][ \A p \in Procs :
           Issued(p, "delete") > 0 => requests'[p] = requests[p] ]_vars

C14_Witness ==
  \E p \in Procs :
    /\ Returned(p)
    /\ Issued(p, "create") = 1
    /\ Issued(p, "get") = 2
    /\ Issued(p, "listLogs") = 1
    /\ Issued(p, "delete") = 1
    /\ logsOutcome[p][1].kind = "body"

(* C15: an invocation that passed validation eventually returns a          *)
(* response, and a cleanup that was started eventually ends, when the      *)
(* create, status and log calls settle and timers fire, whether or not the *)
(* delete request ever settles.                                            *)
C15_EventuallyResponds ==
  \A p \in {1} :
    /\ (pc[p] = "creating") ~> (pc[p] = "done" /\ response[p] # None)
    /\ (pc[p] \in { "cleanupTry", "cleanupCatch" }) ~> (pc[p] = "done")

C15_Witness ==
  \E p \in Procs :
    /\ Returned(p)
    /\ createOutcome[p] = Some([ kind |-> "created" ])
    /\ Issued(p, "get") = MAX_POLLING_ATTEMPTS
    /\ deleteOutcome[p][1].kind = "timeout"
    /\ response[p] # None

(* C16: a returned response has status 200 exactly when its body has      *)
(* success = true and status 500 exactly when it has success = false; no   *)
(* other status is returned.                                               *)
C16_StatusMatchesSuccess ==
  \A p \in Procs :
    response[p] # None =>
      /\ Status(p) \in { 200, 500 }
      /\ Has(p, "success")
      /\ Body(p).success \in BOOLEAN
      /\ (Status(p) = 200) = (Body(p).success = TRUE)
      /\ (Status(p) = 500) = (Body(p).success = FALSE)

C16_Witness ==
  \E p \in Procs :
    /\ Returned(p)
    /\ Status(p) = 500
    /\ Body(p).success = FALSE
    /\ Has(p, "state")
    /\ Body(p).state = "Succeeded"

(* C17: success and status follow the exit code of the terminal            *)
(* observation and not its state tag: Failed or Terminated with exit code  *)
(* 0 is reported as success = true, 200; Succeeded with another or no exit *)
(* code is reported as success = false, 500.                               *)
C17_ExitCodeDecides ==
  \A p \in Procs :
    (Returned(p) /\ TerminalSeen(p)) =>
      /\ (SeenState(p) \in { "Failed", "Terminated" }
            /\ SeenExitCode(p) = Some(0)) =>
           (Body(p).success = TRUE /\ Status(p) = 200)
      /\ (SeenState(p) = "Succeeded" /\ SeenExitCode(p) # Some(0)) =>
           (Body(p).success = FALSE /\ Status(p) = 500)
      /\ \A q \in Procs :
           (Returned(q) /\ TerminalSeen(q)
              /\ SeenExitCode(q) = SeenExitCode(p)) =>
             (Body(q).success = Body(p).success /\ Status(q) = Status(p))

C17_Witness ==
  \E p \in Procs :
    /\ Returned(p)
    /\ TerminalSeen(p)
    /\ SeenState(p) = "Failed"
    /\ SeenExitCode(p) = Some(0)
    /\ Status(p) = 200

(* C18: a state field in a response is Terminated, Succeeded or Failed,    *)
(* and state and exitCode are those of the one status answer that ended    *)
(* the polling; Running or Unknown never appears in a response.            *)
C18_StateIsTerminal ==
  \A p \in Procs :
    (response[p] # None /\ Has(p, "state")) =>
      /\ Body(p).state \in { "Terminated", "Succeeded", "Failed" }
      /\ TerminalSeen(p)
      /\ Body(p).state = SeenState(p)
      /\ Has(p, "exitCode")
      /\ Body(p).exitCode = SeenExitCode(p)

C18_Witness ==
  \E p \in Procs :
    /\ Returned(p)
    /\ Has(p, "state")
    /\ Body(p).state = "Terminated"
    /\ Body(p).exitCode = None
    /\ Issued(p, "get") > 1

\* the response the answers given to invocation p alone determine
AloneResponse(p) ==
  IF CreateFailed(p)
  THEN [ status |-> 500,
         jsonBody |-> [ success |-> FALSE, message |-> CreateError ] ]
  ELSE IF TerminalSeen(p)
  THEN [ status |-> IF SeenExitCode(p) = Some(0) THEN 200 ELSE 500,
         jsonBody |-> [ success |-> SeenExitCode(p) = Some(0),
                        state |-> SeenState(p),
                        exitCode |-> SeenExitCode(p),
                        logs |-> IF logsOutcome[p][1].kind = "error"
                                 THEN << "[LOG FETCH FAILED]: " >>
                                        \o logsOutcome[p][1].message
                                 ELSE IF logsOutcome[p][1].content
                                           \in { None, Some(<< >>) }
                                 THEN << "[NO LOGS]" >>
                                 ELSE logsOutcome[p][1].content[1] ] ]
  ELSE [ status |-> 500,
         jsonBody |-> [ success |-> FALSE, message |-> TimeoutError ] ]

DistinctNames(p, q) ==
  /\ p # q
  /\ groupName[p] # None
  /\ groupName[q] # None
  /\ groupName[p] # groupName[q]

(* C19: of two concurrent invocations with distinct job names, each issues *)
(* its status queries, log fetch and delete only for the name it generated *)
(* and created, never for the name of the other; a step of one leaves the  *)
(* calls and the result of the other alone, and each response is the one   *)
(* its own answers determine.                                              *)
C19_InvocationsAreIsolated ==
  /\ [] (\A p, q \in Procs :
           DistinctNames(p, q) =>
             /\ \A k \in Kinds, n \in Names :
                  requests[p][<< k, n >>] > 0 =>
                    (n = groupName[p][1] /\ requests[p][<< "create", n >>] = 1)
             /\ \A k \in Kinds : requests[p][<< k, groupName[q][1] >>] = 0
             /\ Returned(p) => response[p] = Some(AloneResponse(p)))
  /\ [][ \A p, q \in Procs :
           (p # q /\ pc'[p] # pc[p]) =>
             /\ requests'[q] = requests[q]
             /\ groupName'[q] = groupName[q]
             /\ result'[q] = result[q]
             /\ logs'[q] = logs[q]
             /\ response'[q] = response[q] ]_vars

C19_Witness ==
  \E p, q \in Procs :
    /\ DistinctNames(p, q)
    /\ Returned(p) /\ Returned(q)
    /\ Status(p) = 200
    /\ CreateFailed(q)
    /\ Deletes(p) = 1 /\ Deletes(q) = 1

(* C20: with two runs of the blob application against one container, no   *)
(* create request is pending against a container that is present, no run   *)
(* is refused for creating a present container, and two runs that found    *)
(* the container absent and met no other failure both exit with code 0.    *)
C20_EnsureIsIdempotentUnderInterleaving ==
  /\ \A u \in Runs :
       /\ upc[u] = "creatingContainer" => ~containerExists
       /\ blobFailure[u] # Some(ContainerAlreadyExists)
  /\ \A u, v \in Runs :
       (u # v /\ exists[u] = Some(FALSE) /\ exists[v] = Some(FALSE)
          /\ Exited(u) /\ Exited(v)
          /\ blobFailure[u] \notin { Some(Str("create failed")),
                                     Some(Str("upload failed")) }
          /\ blobFailure[v] \notin { Some(Str("create failed")),
                                     Some(Str("upload failed")) }) =>
         (exitCode[u] = Some(0) /\ exitCode[v] = Some(0))

====
